---- MODULE Spec2Model ----
(***************************************************************************)
(* Model of the Apple Podcasts URL scraper (apple_podcast_scraper.py) and  *)
(* of the batch media processor (process_urls.py).                         *)
(*                                                                         *)
(* Strings are sequences of one-character strings; a URL built from the    *)
(* fixed template is the record of the three parts the template embeds.    *)
(***************************************************************************)
EXTENDS Integers, Sequences, FiniteSets, TLC

VARIABLES
    cmd,                \* the entry point that is running
    pc,                 \* position in the running code
    exit_code,          \* -1 while running, else the process exit status
    \* ---- slug derivation (lines 63-66 / 135-137)
    trackName, episode_name, episode_name2,
    \* ---- search_for_older_episodes
    podcast_id, existing_urls, start_episode, end_episode, max_requests,
    found_urls, requests_made, episode_num, term, episode_found,
    calls,              \* history: requests.get invocations begun
    last,               \* history: outcome of the latest search call
    stop,               \* history: how the enumeration ended
    hit403, found_at_403, \* history: call number answered 403, found_urls then
    delay,              \* history: the delay taken since the latest search call
    seen_known,         \* history: a response carried an episode URL of the known list
    last_results,       \* history: the result list just scanned, when kept, until the sleep is over
    found_before,       \* history: found_urls before that scan, until the sleep is over
    \* ---- validate_urls
    urls, sample_size, sample_urls, valid_count,
    probed,             \* history: the probes issued, in order, with their outcome
    \* ---- scrape
    podcast_url, search_older, search_range, max_search_requests, validate, append,
    recent_urls, all_urls, unique_urls,
    output,             \* content of the output file
    prior,              \* history: content of the output file before the run
    \* ---- process_urls
    file_present, urls_file, input_urls, url_index, download_result, transcript,
    all_transcripts, processed_files,
    transcripts_dir,    \* the files of the transcripts directory
    dir_exists,         \* the transcripts directory exists
    temp_dirs,          \* the temporary directories that exist
    started             \* history: the URLs whose processing began, in order

enumVars == <<podcast_id, existing_urls, start_episode, end_episode, max_requests,
              found_urls, requests_made, episode_num, term, episode_found,
              calls, last, stop, hit403, found_at_403, delay, seen_known, last_results, found_before>>
slugVars == <<trackName, episode_name, episode_name2>>
validateVars == <<urls, sample_size, sample_urls, valid_count, probed>>
scrapeVars == <<podcast_url, search_older, search_range, max_search_requests, validate,
                append, recent_urls, all_urls, unique_urls, output, prior>>
processVars == <<file_present, urls_file, input_urls, url_index, download_result, transcript,
                 all_transcripts, processed_files, transcripts_dir, dir_exists,
                 temp_dirs, started>>
vars == <<cmd, pc, exit_code, slugVars, processVars, enumVars, validateVars, scrapeVars>>

(***************************************************************************)
(* Bounds                                                                  *)
(***************************************************************************)
MaxTitleLen == 4     \* longest title whose slug is derived
IndexLo == 400       \* lowest episode index of a search range
IndexSpan == 3       \* width of the index window
MaxCap == 3          \* largest request cap
MaxResults == 2      \* most items in one lookup or search response
MaxUrls == 3         \* longest list given to validate_urls
MaxSample == 4       \* largest sample size given to validate_urls
MaxLines == 3        \* most lines in the URL file of process-urls

IndexHi == IndexLo + IndexSpan

(***************************************************************************)
(* Slug derivation                                                         *)
(***************************************************************************)
Alphabet == {"a", "B", "7", " ", "\t", "!", "-"}
SlugChars == {"a", "b", "7", "-"}       \* [a-z0-9-] within the alphabet

Titles == UNION {[1..n -> Alphabet] : n \in 0..MaxTitleLen}

\* str.lower() on one character
Lower(c) == IF c = "B" THEN "b" ELSE c

\* .replace(' ', '-')
ReplaceSpaces(s) == [i \in DOMAIN s |-> IF s[i] = " " THEN "-" ELSE s[i]]

\* .lower()
LowerStr(s) == [i \in DOMAIN s |-> Lower(s[i])]

SanitizeDeleting(s) == SelectSeq(s, LAMBDA c : c \in SlugChars)
\* re.sub(r'[^a-z0-9-]', '-', s)
Sanitize(s) == [i \in DOMAIN s |-> IF s[i] \in SlugChars THEN s[i] ELSE "-"]

\* re.sub(r'-+', '-', s)
RECURSIVE CollapseHyphens(_)
CollapseHyphens(s) ==
    IF Len(s) < 2 THEN s
    ELSE IF s[1] = "-" /\ s[2] = "-" THEN CollapseHyphens(Tail(s))
    ELSE <<s[1]>> \o CollapseHyphens(Tail(s))

\* .strip('-')
RECURSIVE LStripHyphens(_)
LStripHyphens(s) ==
    IF s # <<>> /\ s[1] = "-" THEN LStripHyphens(Tail(s)) ELSE s
RECURSIVE RStripHyphens(_)
RStripHyphens(s) ==
    IF s # <<>> /\ s[Len(s)] = "-" THEN RStripHyphens(SubSeq(s, 1, Len(s) - 1)) ELSE s
StripHyphens(s) == RStripHyphens(LStripHyphens(s))

\* lines 63-66 and 135-137: trackName -> episode_name
EpisodeName(name) ==
    StripHyphens(CollapseHyphens(Sanitize(LowerStr(ReplaceSpaces(name)))))

\* lines 69 and 140: the URL template
EpisodeUrl(name, pid, eid) == [name |-> EpisodeName(name), pid |-> pid, eid |-> eid]

NoName == <<"?">>

InitSlugIdle ==
    /\ trackName = <<>>
    /\ episode_name = NoName
    /\ episode_name2 = NoName

\* derive the slug of a title
DeriveName ==
    /\ cmd = "slug" /\ pc = "derive"
    /\ episode_name' = EpisodeName(trackName)
    /\ pc' = "derived"
    /\ UNCHANGED <<cmd, exit_code, trackName, episode_name2, enumVars, validateVars,
                   scrapeVars, processVars>>

\* derive the slug of the slug
DeriveAgain ==
    /\ cmd = "slug" /\ pc = "derived"
    /\ episode_name2' = EpisodeName(episode_name)
    /\ pc' = "done"
    /\ UNCHANGED <<cmd, exit_code, trackName, episode_name, enumVars, validateVars,
                   scrapeVars, processVars>>

(***************************************************************************)
(* Decimal numbers and the two command-line parsers                        *)
(***************************************************************************)
Digits == <<"0", "1", "2", "3", "4", "5", "6", "7", "8", "9">>
IsDigit(c) == \E i \in 1..10 : Digits[i] = c
DigitVal(c) == (CHOOSE i \in 1..10 : Digits[i] = c) - 1

\* str(n) for n >= 0
RECURSIVE Str(_)
Str(n) == IF n < 10 THEN <<Digits[n + 1]>> ELSE Str(n \div 10) \o <<Digits[(n % 10) + 1]>>

\* int(s) for a string of digits
RECURSIVE IntOf(_)
IntOf(s) == IF s = <<>> THEN 0 ELSE 10 * IntOf(SubSeq(s, 1, Len(s) - 1)) + DigitVal(s[Len(s)])

\* the longest run of digits at the start of s
RECURSIVE DigitRun(_)
DigitRun(s) == IF s # <<>> /\ IsDigit(s[1]) THEN <<s[1]>> \o DigitRun(Tail(s)) ELSE <<>>

\* lines 31-34: re.search(r'/id(\d+)', url); <<>> stands for None
RECURSIVE extract_podcast_id(_)
extract_podcast_id(url) ==
    IF Len(url) < 4 THEN <<>>
    ELSE IF url[1] = "/" /\ url[2] = "i" /\ url[3] = "d" /\ IsDigit(url[4])
         THEN DigitRun(SubSeq(url, 4, Len(url)))
         ELSE extract_podcast_id(Tail(url))

\* str.split('-')
RECURSIVE SplitHyphen(_)
SplitHyphen(s) ==
    IF \A i \in DOMAIN s : s[i] # "-" THEN <<s>>
    ELSE LET k == CHOOSE i \in DOMAIN s : s[i] = "-" /\ \A j \in 1..(i - 1) : s[j] # "-"
         IN <<SubSeq(s, 1, k - 1)>> \o SplitHyphen(SubSeq(s, k + 1, Len(s)))

\* int() accepts surrounding blanks around a non-empty run of digits
RECURSIVE StripBlanks(_)
StripBlanks(s) ==
    IF s # <<>> /\ s[1] = " " THEN StripBlanks(Tail(s))
    ELSE IF s # <<>> /\ s[Len(s)] = " " THEN StripBlanks(SubSeq(s, 1, Len(s) - 1))
    ELSE s
IsInt(s) == StripBlanks(s) # <<>> /\ \A i \in DOMAIN StripBlanks(s) : IsDigit(StripBlanks(s)[i])

\* line 241: start_ep, end_ep = map(int, search_range.split('-'));
\* <<>> stands for the ValueError
ParseRange(range) ==
    LET parts == SplitHyphen(range)
    IN IF Len(parts) = 2 /\ IsInt(parts[1]) /\ IsInt(parts[2])
       THEN <<IntOf(StripBlanks(parts[1])), IntOf(StripBlanks(parts[2]))>>
       ELSE <<>>

(***************************************************************************)
(* search_for_older_episodes                                               *)
(***************************************************************************)
PodcastId == <<"7">>
TitleA == <<"B", " ", "a">>
TitleB == <<"b", "!", "a">>

\* the result items a search response may carry
ResultItems ==
    {[collectionId |-> 7, kind |-> "podcast-episode", trackId |-> i, trackName |-> TitleA] : i \in 0..2}
    \cup {[collectionId |-> 7, kind |-> "podcast-episode", trackId |-> 1, trackName |-> TitleB],
          [collectionId |-> 8, kind |-> "podcast-episode", trackId |-> 1, trackName |-> TitleA],
          [collectionId |-> 7, kind |-> "podcast", trackId |-> 2, trackName |-> TitleA]}

ResultLists == UNION {[1..n -> ResultItems] : n \in 0..MaxResults}

InSeq(x, s) == \E i \in DOMAIN s : s[i] = x

\* "403" in str(n): the decimal digits of n contain 4,0,3
RECURSIVE Has403(_)
Has403(n) == n % 1000 = 403 \/ (n >= 1000 /\ Has403(n \div 10))

\* lines 130-145: the first result that matches, has an id and yields a new URL
RECURSIVE ScanResults(_, _, _, _)
ScanResults(results, pid, existing, found) ==
    IF results = <<>> THEN <<>>
    ELSE LET result == Head(results)
             episode_url == EpisodeUrl(result.trackName, pid, result.trackId)
         IN IF /\ result.collectionId = IntOf(pid)
               /\ result.kind = "podcast-episode"
               /\ result.trackId # 0
               /\ ~InSeq(episode_url, existing)
               /\ ~InSeq(episode_url, found)
            THEN <<episode_url>>
            ELSE ScanResults(Tail(results), pid, existing, found)

\* some item of the response is an episode of the podcast whose URL is known
CarriesKnown(results, pid, existing) ==
    \E k \in DOMAIN results :
        /\ results[k].collectionId = IntOf(pid)
        /\ results[k].kind = "podcast-episode"
        /\ results[k].trackId # 0
        /\ InSeq(EpisodeUrl(results[k].trackName, pid, results[k].trackId), existing)

\* the first result of the podcast alone is looked at
ScanFirstMatchOnly(results, pid, existing, found) ==
    IF \A k \in DOMAIN results :
          results[k].collectionId # IntOf(pid) \/ results[k].kind # "podcast-episode"
    THEN <<>>
    ELSE LET f == CHOOSE k \in DOMAIN results :
                    /\ results[k].collectionId = IntOf(pid)
                    /\ results[k].kind = "podcast-episode"
                    /\ \A j \in 1..(k - 1) :
                          results[j].collectionId # IntOf(pid) \/ results[j].kind # "podcast-episode"
         IN ScanResults(<<results[f]>>, pid, existing, found)

ScanIgnoringKnown(results, pid, existing, found) ==
    ScanResults(results, pid, <<>>, found)
\* lines 130-145 as run on one response
Scan(results, pid, existing, found) == ScanResults(results, pid, existing, found)

InitEnumIdle ==
    /\ podcast_id = <<>> /\ existing_urls = <<>>
    /\ start_episode = 0 /\ end_episode = 0 /\ max_requests = 0
    /\ found_urls = <<>> /\ requests_made = 0 /\ episode_num = 0 /\ term = 0
    /\ episode_found = FALSE
    /\ calls = 0 /\ last = "none" /\ stop = "none" /\ hit403 = 0 /\ found_at_403 = <<>>
    /\ delay = "none" /\ seen_known = FALSE /\ last_results = <<>> /\ found_before = <<>>

enumArgs == <<podcast_id, existing_urls, start_episode, end_episode, max_requests>>

\* lines 89-94: entry, found_urls = [], requests_made = 0, first index
EnterSearch(pid, existing, s, e, cap) ==
    /\ podcast_id' = pid /\ existing_urls' = existing
    /\ start_episode' = s /\ end_episode' = e /\ max_requests' = cap
    /\ found_urls' = <<>> /\ requests_made' = 0 /\ episode_num' = s /\ term' = 0
    /\ episode_found' = FALSE
    /\ calls' = 0 /\ last' = "none" /\ stop' = "running" /\ hit403' = 0
    /\ found_at_403' = <<>> /\ delay' = "none" /\ seen_known' = FALSE
    /\ last_results' = <<>> /\ found_before' = <<>>
    /\ pc' = "for_episode"

\* lines 123, 155, 163: return found_urls
ReturnSearch(how) ==
    /\ stop' = how
    /\ pc' = IF cmd = "scrape" THEN "extend_older" ELSE "done"

ThreeTerms == 2 + 1
\* lines 99-102: the two query variants of one index
NumTerms == 2

\* lines 94-104: outer loop head, budget check, episode_found = False
ForEpisode ==
    /\ pc = "for_episode"
    /\ IF episode_num > end_episode THEN
           /\ ReturnSearch("completed")
           /\ UNCHANGED <<term, episode_found>>
       ELSE IF requests_made >= max_requests THEN
           /\ ReturnSearch("budget")
           /\ UNCHANGED <<term, episode_found>>
       ELSE
           /\ term' = 1 /\ episode_found' = FALSE /\ pc' = "for_term"
           /\ UNCHANGED stop
    /\ UNCHANGED <<cmd, exit_code, slugVars, processVars, validateVars, scrapeVars, enumArgs,
                   found_urls, requests_made, episode_num, calls, last, hit403,
                   found_at_403, delay, seen_known, last_results, found_before>>

\* lines 105-107 and 158-160: the inner loop is over (terms exhausted, found, or
\* out of budget); long pause after every 10th index; next index
NextEpisode ==
    /\ pc = "for_term"
    /\ term > NumTerms \/ requests_made >= max_requests
    /\ delay' = IF episode_num % 10 = 0 THEN "long" ELSE delay
    /\ episode_num' = episode_num + 1
    /\ pc' = "for_episode"
    /\ UNCHANGED <<cmd, exit_code, slugVars, processVars, validateVars, scrapeVars, enumArgs,
                   found_urls, requests_made, term, episode_found, calls, last, stop,
                   hit403, found_at_403, seen_known, last_results, found_before>>

Raises == {"read_timeout", "connection_error"}       \* requests.get raises
Statuses == {"status403", "http_error", "malformed"} \* a response that is no result list

\* str(e) of an HTTPError or of a connection error quotes the request URL, whose
\* term ends in the episode index; a read timeout and a JSON error quote neither
MessageHas403(outcome, n) ==
    /\ outcome \in {"http_error", "connection_error"}
    /\ Has403(n)

\* line 119: requests_made += 1 is reached only when requests.get returned
Counted(outcome) == IF outcome \in Raises THEN 0 ELSE 1

On403Continue(outcome) == FALSE
\* lines 121-123: a 403 response returns found_urls
RateLimited(outcome) == outcome = "status403"

\* lines 109-125 and 152-156: one search call that yields no result list
SearchFails ==
    /\ pc = "for_term" /\ term <= NumTerms /\ requests_made < max_requests
    /\ \E outcome \in Raises \cup Statuses :
        /\ calls' = calls + 1
        /\ requests_made' = requests_made + Counted(outcome)
        /\ last' = outcome
        /\ delay' = "none"
        /\ hit403' = IF outcome = "status403" THEN calls + 1 ELSE hit403
        /\ found_at_403' = IF outcome = "status403" THEN found_urls ELSE found_at_403
        /\ IF RateLimited(outcome) \/ MessageHas403(outcome, episode_num) THEN
               /\ ReturnSearch("rate_limited")
               /\ UNCHANGED term
           ELSE
               /\ term' = term + 1
               /\ pc' = "for_term"
               /\ UNCHANGED stop
    /\ UNCHANGED <<cmd, exit_code, slugVars, processVars, validateVars, scrapeVars, enumArgs,
                   found_urls, episode_num, episode_found, seen_known, last_results, found_before>>

\* lines 109-145: one search call answered 200 with a result list; keep says
\* whether the history variables hold the response until the sleep is over
Answered(keep) ==
    /\ pc = "for_term" /\ term <= NumTerms /\ requests_made < max_requests
    /\ \E results \in ResultLists :
        LET new == Scan(results, podcast_id, existing_urls, found_urls) IN
        /\ calls' = calls + 1
        /\ requests_made' = requests_made + 1
        /\ last' = "ok"
        /\ delay' = "none"
        /\ found_urls' = found_urls \o new
        /\ episode_found' = (new # <<>>)
        /\ seen_known' = (seen_known \/ CarriesKnown(results, podcast_id, existing_urls))
        /\ last_results' = IF keep THEN results ELSE <<>>
        /\ found_before' = IF keep THEN found_urls ELSE <<>>
        /\ pc' = "sleep"
    /\ UNCHANGED <<cmd, exit_code, slugVars, processVars, validateVars, scrapeVars, enumArgs,
                   episode_num, term, stop, hit403, found_at_403>>

SearchSucceeds == Answered(FALSE)
\* the same step, with the response kept for inspection
SearchSucceedsKept == Answered(TRUE)

\* lines 147-150: time.sleep(0.5), then leave the inner loop when found
Sleep ==
    /\ pc = "sleep"
    /\ delay' = "short"
    /\ term' = IF episode_found THEN NumTerms + 1 ELSE term + 1
    /\ last_results' = <<>> /\ found_before' = <<>>
    /\ pc' = "for_term"
    /\ UNCHANGED <<cmd, exit_code, slugVars, processVars, validateVars, scrapeVars, enumArgs,
                   found_urls, requests_made, episode_num, episode_found, calls, last,
                   stop, hit403, found_at_403, seen_known>>

Url1 == EpisodeUrl(TitleA, PodcastId, 1)
Url2 == EpisodeUrl(TitleA, PodcastId, 2)
KnownLists == {<<>>, <<Url1>>, <<Url2>>, <<Url1, Url1>>}

(***************************************************************************)
(* validate_urls                                                           *)
(***************************************************************************)
DefaultSample == 10

InitValidateIdle ==
    /\ urls = <<>> /\ sample_size = 0 /\ sample_urls = <<>> /\ valid_count = 0
    /\ probed = <<>>

SampleAll(list, n) == list
\* line 170: urls[:sample_size] if len(urls) > sample_size else urls
Sample(list, n) == IF Len(list) > n THEN SubSeq(list, 1, n) ELSE list

\* lines 167-171: entry
EnterValidate(list, n) ==
    /\ urls' = list /\ sample_size' = n
    /\ sample_urls' = IF list = <<>> THEN <<>> ELSE Sample(list, n)
    /\ valid_count' = 0 /\ probed' = <<>>
    /\ pc' = "probe"

ProbeOutcomes == {"200", "404", "raised"}

\* lines 179-186: one probe; any exception is swallowed
Probe ==
    /\ pc = "probe" /\ Len(probed) < Len(sample_urls)
    /\ \E outcome \in ProbeOutcomes :
        /\ probed' = Append(probed, [url |-> sample_urls[Len(probed) + 1], outcome |-> outcome])
        /\ valid_count' = IF outcome = "200" THEN valid_count + 1 ELSE valid_count
    /\ UNCHANGED <<cmd, pc, exit_code, slugVars, processVars, enumVars, scrapeVars, urls,
                   sample_size, sample_urls>>

\* line 188: return valid_count
ReturnValidate ==
    /\ pc = "probe" /\ Len(probed) = Len(sample_urls)
    /\ pc' = IF cmd = "scrape" THEN "write" ELSE "done"
    /\ UNCHANGED <<cmd, exit_code, slugVars, processVars, enumVars, scrapeVars, validateVars>>

(***************************************************************************)
(* get_recent_episodes_from_api                                            *)
(***************************************************************************)
\* the items of a lookup response after the first
LookupItems ==
    {[trackId |-> 1, trackName |-> TitleA], [trackId |-> 2, trackName |-> TitleA],
     [trackId |-> 1, trackName |-> TitleB], [trackId |-> 0, trackName |-> TitleA]}
PodcastInfo == [trackId |-> 0, trackName |-> <<>>]

\* a lookup response: no results, or the podcast info followed by episodes
LookupResults ==
    {<<>>} \cup {<<PodcastInfo>> \o eps : eps \in UNION {[1..n -> LookupItems] : n \in 0..MaxResults}}

\* lines 61-70
RECURSIVE EpisodeUrls(_, _)
EpisodeUrls(episodes, pid) ==
    IF episodes = <<>> THEN <<>>
    ELSE (IF Head(episodes).trackId # 0
          THEN <<EpisodeUrl(Head(episodes).trackName, pid, Head(episodes).trackId)>>
          ELSE <<>>) \o EpisodeUrls(Tail(episodes), pid)

\* lines 55-73: results[1:] if len(results) > 1 else []
RecentUrls(results, pid) ==
    EpisodeUrls(IF Len(results) > 1 THEN Tail(results) ELSE <<>>, pid)

(***************************************************************************)
(* scrape                                                                  *)
(***************************************************************************)
NoUrl == [name |-> <<>>, pid |-> <<>>, eid |-> 0]
Piece(kind, n, url) == [kind |-> kind, n |-> n, url |-> url]
NL == Piece("nl", 0, NoUrl)
UrlPiece(u) == Piece("url", 0, u)

\* f.write(f"{url}\n") for each url
RECURSIVE UrlLines(_)
UrlLines(list) ==
    IF list = <<>> THEN <<>> ELSE <<UrlPiece(Head(list)), NL>> \o UrlLines(Tail(list))

\* lines 277-279: the header block
Header(list) ==
    <<Piece("source", 0, NoUrl), NL, Piece("total", Len(list), NoUrl), NL,
      Piece("generator", 0, NoUrl), NL, NL>>

\* line 281: f"\n# Additional episodes from {podcast_url}\n"
Separator(list) == <<NL, Piece("additional", 0, NoUrl), NL>>

\* lines 276-284: what one run writes
Written(list, app) == (IF app THEN Separator(list) ELSE Header(list)) \o UrlLines(list)

OpenTruncating(content, app) == <<>>
\* line 275: open(output, 'a' or 'w')
Opened(content, app) == IF app THEN content ELSE <<>>

DedupeKeepAll(list, unique, seen) == list
\* lines 258-263
RECURSIVE Dedupe(_, _, _)
Dedupe(list, unique, seen) ==
    IF list = <<>> THEN unique
    ELSE IF Head(list) \in seen THEN Dedupe(Tail(list), unique, seen)
    ELSE Dedupe(Tail(list), Append(unique, Head(list)), seen \cup {Head(list)})

\* the lines of a file: the pieces between line breaks
RECURSIVE LinesOf(_, _)
LinesOf(content, cur) ==
    IF content = <<>> THEN (IF cur = <<>> THEN <<>> ELSE <<cur>>)
    ELSE IF Head(content) = NL THEN <<cur>> \o LinesOf(Tail(content), <<>>)
    ELSE LinesOf(Tail(content), Append(cur, Head(content)))
Lines(content) == LinesOf(content, <<>>)

InitScrapeIdle ==
    /\ podcast_url = <<>> /\ search_older = FALSE /\ search_range = <<>>
    /\ max_search_requests = 0 /\ validate = FALSE /\ append = FALSE
    /\ recent_urls = <<>> /\ all_urls = <<>> /\ unique_urls = <<>>
    /\ output = <<>> /\ prior = <<>>

scrapeArgs == <<podcast_url, search_older, search_range, max_search_requests, validate,
                append, prior>>

\* raise typer.Exit(code)
Exit(code) == exit_code' = code /\ pc' = "done"

\* lines 216-221
ExtractId ==
    /\ cmd = "scrape" /\ pc = "start"
    /\ IF extract_podcast_id(podcast_url) = <<>>
       THEN Exit(1) /\ UNCHANGED podcast_id
       ELSE podcast_id' = extract_podcast_id(podcast_url) /\ pc' = "lookup"
            /\ UNCHANGED exit_code
    /\ UNCHANGED <<cmd, slugVars, processVars, validateVars, scrapeArgs, recent_urls, all_urls,
                   unique_urls, output, existing_urls, start_episode, end_episode,
                   max_requests, found_urls, requests_made, episode_num, term,
                   episode_found, calls, last, stop, hit403, found_at_403, delay,
                   seen_known, last_results, found_before>>

\* lines 233-234 with 49-80: the lookup; a failed call yields []
Lookup ==
    /\ cmd = "scrape" /\ pc = "lookup"
    /\ \E list \in {<<>>} \cup {RecentUrls(r, podcast_id) : r \in LookupResults} :
        /\ recent_urls' = list
        /\ all_urls' = list
    /\ pc' = "older"
    /\ UNCHANGED <<cmd, exit_code, slugVars, processVars, validateVars, scrapeArgs, unique_urls,
                   output, enumVars>>

\* line 238: the range is parsed only when the search is to run
NeedsRange(older, recent) == older /\ recent # <<>>

\* lines 238-249
SearchOlder ==
    /\ cmd = "scrape" /\ pc = "older"
    /\ IF ~NeedsRange(search_older, recent_urls) THEN
           /\ pc' = "dedupe"
           /\ UNCHANGED <<exit_code, enumVars>>
       ELSE IF ParseRange(search_range) = <<>> THEN
           /\ Exit(1)
           /\ UNCHANGED enumVars
       ELSE
           /\ EnterSearch(podcast_id, all_urls, ParseRange(search_range)[1],
                          ParseRange(search_range)[2], max_search_requests)
           /\ UNCHANGED exit_code
    /\ UNCHANGED <<cmd, slugVars, processVars, validateVars, scrapeVars>>

\* line 250: all_urls.extend(older_urls)
ExtendOlder ==
    /\ cmd = "scrape" /\ pc = "extend_older"
    /\ all_urls' = all_urls \o found_urls
    /\ pc' = "dedupe"
    /\ UNCHANGED <<cmd, exit_code, slugVars, processVars, validateVars, enumVars, scrapeArgs,
                   recent_urls, unique_urls, output>>

\* lines 253-270
Deduplicate ==
    /\ cmd = "scrape" /\ pc = "dedupe"
    /\ IF all_urls = <<>> THEN
           /\ Exit(1)
           /\ UNCHANGED <<unique_urls, validateVars>>
       ELSE
           /\ unique_urls' = Dedupe(all_urls, <<>>, {})
           /\ UNCHANGED exit_code
           /\ IF validate
              THEN EnterValidate(Dedupe(all_urls, <<>>, {}), DefaultSample)
              ELSE pc' = "write" /\ UNCHANGED validateVars
    /\ UNCHANGED <<cmd, slugVars, processVars, enumVars, scrapeArgs, recent_urls, all_urls, output>>

\* lines 273-287: the file is opened and written in full
Save ==
    /\ cmd = "scrape" /\ pc = "write"
    /\ output' = Opened(output, append) \o Written(unique_urls, append)
    /\ Exit(0)
    /\ UNCHANGED <<cmd, slugVars, processVars, enumVars, validateVars, scrapeArgs, recent_urls,
                   all_urls, unique_urls>>

\* lines 297-299: open() raises, or a write raises after part of the text is out
SaveFails ==
    /\ cmd = "scrape" /\ pc = "write"
    /\ \/ UNCHANGED output
       \/ \E k \in 0..(Len(Written(unique_urls, append)) - 1) :
            output' = Opened(output, append) \o SubSeq(Written(unique_urls, append), 1, k)
    /\ Exit(1)
    /\ UNCHANGED <<cmd, slugVars, processVars, enumVars, validateVars, scrapeArgs, recent_urls,
                   all_urls, unique_urls>>

(***************************************************************************)
(* process_urls.py                                                         *)
(***************************************************************************)
NoResult == [title |-> "none"]

InitProcessIdle ==
    /\ file_present = FALSE /\ urls_file = <<>> /\ input_urls = <<>> /\ url_index = 0
    /\ download_result = NoResult /\ transcript = "none"
    /\ all_transcripts = <<>> /\ processed_files = <<>>
    /\ transcripts_dir = {} /\ dir_exists = FALSE /\ temp_dirs = {} /\ started = <<>>

FileLines == {"url1", "url2", "#", ""}

\* lines 145-156: the lines that are neither blank nor comments
read_urls_from_file(lines) == SelectSeq(lines, LAMBDA l : l # "" /\ l # "#")

processArgs == <<file_present, urls_file>>

\* lines 166-178
ReadUrls ==
    /\ cmd = "process_urls" /\ pc = "start"
    /\ IF ~file_present \/ read_urls_from_file(urls_file) = <<>>
       THEN Exit(1) /\ UNCHANGED <<input_urls, url_index>>
       ELSE /\ input_urls' = read_urls_from_file(urls_file)
            /\ url_index' = 1
            /\ pc' = "for_url"
            /\ UNCHANGED exit_code
    /\ UNCHANGED <<cmd, slugVars, enumVars, validateVars, scrapeVars, processArgs,
                   download_result, transcript, all_transcripts, processed_files,
                   transcripts_dir, dir_exists, temp_dirs, started>>

\* lines 186-189 and 126-128: next URL, its temporary directory is created
BeginUrl ==
    /\ cmd = "process_urls" /\ pc = "for_url" /\ url_index <= Len(input_urls)
    /\ started' = Append(started, input_urls[url_index])
    /\ temp_dirs' = temp_dirs \cup {url_index}
    /\ pc' = "download"
    /\ UNCHANGED <<cmd, exit_code, slugVars, enumVars, validateVars, scrapeVars,
                   processArgs, input_urls, url_index, download_result, transcript,
                   all_transcripts, processed_files, transcripts_dir, dir_exists>>

DownloadTitles == {"Episode", "Unknown"}

\* lines 130-135 with 33-54: a failed download returns None, the URL is skipped
Download ==
    /\ cmd = "process_urls" /\ pc = "download"
    /\ \/ /\ download_result' = NoResult
          /\ temp_dirs' = temp_dirs \ {url_index}
          /\ url_index' = url_index + 1
          /\ pc' = "for_url"
       \/ /\ \E t \in DownloadTitles : download_result' = [title |-> t]
          /\ pc' = "transcribe"
          /\ UNCHANGED <<temp_dirs, url_index>>
    /\ UNCHANGED <<cmd, exit_code, slugVars, enumVars, validateVars, scrapeVars,
                   processArgs, input_urls, transcript, all_transcripts,
                   processed_files, transcripts_dir, dir_exists, started>>

\* lines 138 with 56-77: a transcript, the placeholder or the error text
Transcribe ==
    /\ cmd = "process_urls" /\ pc = "transcribe"
    /\ transcript' \in {"text", "placeholder", "error"}
    /\ pc' = "save"
    /\ UNCHANGED <<cmd, exit_code, slugVars, enumVars, validateVars, scrapeVars,
                   processArgs, input_urls, url_index, download_result, all_transcripts,
                   processed_files, transcripts_dir, dir_exists, temp_dirs, started>>

\* lines 86-92: the file stem for a title
Stem(t, dir) ==
    IF t = "Unknown" THEN [name |-> "transcript", n |-> Cardinality(dir) + 1]
    ELSE [name |-> t, n |-> 0]

\* lines 95-103: the first free path, the plain name or the name with a counter
FilePath(t, dir) ==
    LET stem == Stem(t, dir)
        n == CHOOSE k \in 0..Cardinality(dir) :
                /\ [stem |-> stem, counter |-> k] \notin dir
                /\ \A j \in 0..(k - 1) : [stem |-> stem, counter |-> j] \in dir
    IN [stem |-> stem, counter |-> n]

NoPath == [stem |-> [name |-> "", n |-> 0], counter |-> 0]

\* lines 141-143 and 190-198 with 79-122, when the directory can be made: the
\* transcript is written (or the write fails and the path is ""), the temporary
\* directory is removed, the result is aggregated
SaveTranscript ==
    /\ cmd = "process_urls" /\ pc = "save"
    /\ \E written \in BOOLEAN :
        LET filepath == FilePath(download_result.title, transcripts_dir) IN
        /\ transcripts_dir' = IF written THEN transcripts_dir \cup {filepath}
                              ELSE transcripts_dir
        /\ all_transcripts' = Append(all_transcripts,
               [url |-> input_urls[url_index], title |-> download_result.title,
                file |-> IF written THEN filepath ELSE NoPath, text |-> transcript])
        /\ processed_files' = Append(processed_files, IF written THEN filepath ELSE NoPath)
    /\ dir_exists' = TRUE
    /\ temp_dirs' = temp_dirs \ {url_index}
    /\ url_index' = url_index + 1
    /\ pc' = "for_url"
    /\ UNCHANGED <<cmd, exit_code, slugVars, enumVars, validateVars, scrapeVars,
                   processArgs, input_urls, download_result, transcript, started>>

\* line 83: transcripts_dir.mkdir raises outside any try; the exception leaves
\* process_url through the with block and ends process_urls
MkdirRaises ==
    /\ cmd = "process_urls" /\ pc = "save"
    /\ ~dir_exists
    /\ temp_dirs' = temp_dirs \ {url_index}
    /\ Exit(1)
    /\ UNCHANGED <<cmd, slugVars, enumVars, validateVars, scrapeVars, processArgs,
                   input_urls, url_index, download_result, transcript, all_transcripts,
                   processed_files, transcripts_dir, dir_exists, started>>

\* lines 200-217: the end of the batch
Finish ==
    /\ cmd = "process_urls" /\ pc = "for_url" /\ url_index > Len(input_urls)
    /\ Exit(0)
    /\ UNCHANGED <<cmd, slugVars, enumVars, validateVars, scrapeVars, processVars>>

(***************************************************************************)
(* Specifications                                                          *)
(***************************************************************************)
RangeStr(a, b) == Str(a) \o <<"-">> \o Str(b)

PodcastUrls ==
    {<<"/", "i", "d", "/", "i", "d", "0", "7", "x">>,
     <<"/", "i", "d", "x">>,
     <<"i", "d", "7">>,
     <<>>}

SearchRanges ==
    {RangeStr(IndexHi - 1, IndexHi), RangeStr(IndexHi, IndexHi - 1)}
    \cup {<<>>, <<"x">>, Str(IndexHi), Str(IndexHi) \o <<"-">>,
          <<"-">> \o RangeStr(IndexHi, IndexHi),
          RangeStr(IndexHi, IndexHi) \o <<"-">> \o Str(IndexHi),
          Str(IndexHi) \o <<"-", "x">>}

PriorLine(n) == Piece("prior", n, NoUrl)
PriorFiles ==
    {<<>>,
     <<PriorLine(1), NL, PriorLine(2), NL, PriorLine(3), NL>>,
     <<PriorLine(1), NL, PriorLine(2), NL, PriorLine(3)>>}

InitScrape ==
    /\ cmd = "scrape" /\ pc = "start" /\ exit_code = -1
    /\ InitSlugIdle /\ InitEnumIdle /\ InitValidateIdle /\ InitProcessIdle
    /\ podcast_url \in PodcastUrls
    /\ search_older \in BOOLEAN
    /\ search_range \in SearchRanges
    /\ max_search_requests \in {0, MaxCap - 1}
    /\ validate \in BOOLEAN
    /\ append \in BOOLEAN
    /\ recent_urls = <<>> /\ all_urls = <<>> /\ unique_urls = <<>>
    /\ prior \in PriorFiles
    /\ output = prior

NextScrape ==
    \/ ExtractId
    \/ Lookup
    \/ SearchOlder
    \/ ForEpisode
    \/ NextEpisode
    \/ SearchFails
    \/ SearchSucceeds
    \/ Sleep
    \/ ExtendOlder
    \/ Deduplicate
    \/ Probe
    \/ ReturnValidate
    \/ Save
    \/ SaveFails

SpecScrape == InitScrape /\ [][NextScrape]_vars

InitSearch ==
    /\ cmd = "search" /\ pc = "call" /\ exit_code = -1
    /\ InitSlugIdle /\ InitValidateIdle /\ InitScrapeIdle /\ InitProcessIdle
    /\ podcast_id = PodcastId
    /\ existing_urls \in KnownLists
    /\ start_episode \in IndexLo..IndexHi
    /\ end_episode \in IndexLo..IndexHi
    /\ max_requests \in 0..MaxCap
    /\ found_urls = <<>> /\ requests_made = 0 /\ episode_num = 0 /\ term = 0
    /\ episode_found = FALSE
    /\ calls = 0 /\ last = "none" /\ stop = "none" /\ hit403 = 0 /\ found_at_403 = <<>>
    /\ delay = "none" /\ seen_known = FALSE /\ last_results = <<>> /\ found_before = <<>>

\* a direct call of search_for_older_episodes
CallSearch ==
    /\ cmd = "search" /\ pc = "call"
    /\ EnterSearch(podcast_id, existing_urls, start_episode, end_episode, max_requests)
    /\ UNCHANGED <<cmd, exit_code, slugVars, processVars, validateVars, scrapeVars>>

NextSearch ==
    \/ CallSearch
    \/ ForEpisode
    \/ NextEpisode
    \/ SearchFails
    \/ SearchSucceeds
    \/ Sleep

SpecSearch == InitSearch /\ [][NextSearch]_vars

\* the code is one thread that always takes its next step, and every search call
\* returns or raises within its timeout (line 118, timeout=15)
SpecSearchFair == InitSearch /\ [][NextSearch]_vars /\ WF_vars(NextSearch)

\* calls over the last two indices of the window with the full cap, each
\* successful response kept until its sleep is over
InitScan ==
    /\ InitSearch
    /\ start_episode = IndexHi - 1 /\ end_episode = IndexHi
    /\ max_requests = MaxCap

NextScan ==
    \/ CallSearch
    \/ ForEpisode
    \/ NextEpisode
    \/ SearchFails
    \/ SearchSucceedsKept
    \/ Sleep

SpecScan == InitScan /\ [][NextScan]_vars

UrlLists == UNION {[1..n -> {Url1, Url2}] : n \in 0..MaxUrls}

InitValidate ==
    /\ cmd = "validate" /\ pc = "call" /\ exit_code = -1
    /\ InitSlugIdle /\ InitEnumIdle /\ InitScrapeIdle /\ InitProcessIdle
    /\ urls \in UrlLists
    /\ sample_size \in 0..MaxSample
    /\ sample_urls = <<>> /\ valid_count = 0 /\ probed = <<>>

\* a direct call of validate_urls
CallValidate ==
    /\ cmd = "validate" /\ pc = "call"
    /\ EnterValidate(urls, sample_size)
    /\ UNCHANGED <<cmd, exit_code, slugVars, processVars, enumVars, scrapeVars>>

NextValidate ==
    \/ CallValidate
    \/ Probe
    \/ ReturnValidate

SpecValidate == InitValidate /\ [][NextValidate]_vars

InitProcess ==
    /\ cmd = "process_urls" /\ pc = "start" /\ exit_code = -1
    /\ InitSlugIdle /\ InitEnumIdle /\ InitValidateIdle /\ InitScrapeIdle
    /\ file_present \in BOOLEAN
    /\ urls_file \in UNION {[1..n -> FileLines] : n \in 0..MaxLines}
    /\ input_urls = <<>> /\ url_index = 0
    /\ download_result = NoResult /\ transcript = "none"
    /\ all_transcripts = <<>> /\ processed_files = <<>>
    /\ transcripts_dir = {} /\ dir_exists \in BOOLEAN
    /\ temp_dirs = {} /\ started = <<>>

NextProcess ==
    \/ ReadUrls
    \/ BeginUrl
    \/ Download
    \/ Transcribe
    \/ SaveTranscript
    \/ MkdirRaises
    \/ Finish

SpecProcess == InitProcess /\ [][NextProcess]_vars

InitSlug ==
    /\ cmd = "slug" /\ pc = "derive" /\ exit_code = -1
    /\ trackName \in Titles
    /\ episode_name = NoName /\ episode_name2 = NoName
    /\ InitEnumIdle /\ InitValidateIdle /\ InitScrapeIdle /\ InitProcessIdle

NextSlug ==
    \/ DeriveName
    \/ DeriveAgain

SpecSlug == InitSlug /\ [][NextSlug]_vars

(***************************************************************************)
(* Properties                                                              *)
(***************************************************************************)
Min(a, b) == IF a < b THEN a ELSE b
NoDuplicates(list) == \A a, b \in DOMAIN list : a # b => list[a] # list[b]
Elements(list) == {list[k] : k \in DOMAIN list}
FirstIndex(x, list) == CHOOSE k \in DOMAIN list : list[k] = x /\ \A j \in 1..(k - 1) : list[j] # x

\* C1: the search calls issued in one enumeration, the calls that raise before a
\* response arrives included, never exceed max_requests.
C1_CallsWithinCap == calls <= max_requests

\* C2: once the k-th search call is answered 403, the enumeration has returned,
\* no further call is issued (calls stays k) and the list returned is the list
\* found before that call.
C2_StopsAt403 ==
    hit403 > 0 =>
        /\ stop = "rate_limited"
        /\ calls = hit403
        /\ found_urls = found_at_403

C2_Witness ==
    /\ hit403 >= 2 /\ hit403 < max_requests
    /\ found_at_403 # <<>>
    /\ stop = "rate_limited"

\* C3: at every point of an enumeration the found list holds no known URL and no
\* URL twice, and in scrape the known list is the whole output of the lookup.
C3_FoundDisjointFromKnown ==
    /\ NoDuplicates(found_urls)
    /\ \A k \in DOMAIN found_urls : ~InSeq(found_urls[k], existing_urls)
    /\ (cmd = "scrape" /\ stop # "none") =>
           /\ existing_urls = recent_urls
           /\ Elements(found_urls) \cap Elements(recent_urls) = {}

C3_Witness ==
    /\ cmd = "scrape" /\ pc = "extend_older"
    /\ seen_known
    /\ found_urls # <<>>

\* the URL lines of a file, in order
RECURSIVE UrlsIn(_)
UrlsIn(content) ==
    IF content = <<>> THEN <<>>
    ELSE (IF Head(content).kind = "url" THEN <<Head(content).url>> ELSE <<>>)
         \o UrlsIn(Tail(content))

\* C4: the URL lines a run writes hold no URL twice and follow the order of the
\* first occurrences in the gathered list (lookup results, then search results);
\* when the run has saved its file they hold every gathered URL.
C4_WrittenOnceInFirstSeenOrder ==
    cmd = "scrape" =>
        LET w == UrlsIn(output) IN
        /\ NoDuplicates(w)
        /\ Elements(w) \subseteq Elements(all_urls)
        /\ \A a, b \in DOMAIN w :
              a < b => FirstIndex(w[a], all_urls) < FirstIndex(w[b], all_urls)
        /\ exit_code = 0 =>
              /\ Elements(w) = Elements(all_urls)
              /\ all_urls = recent_urls \o (IF stop = "none" THEN <<>> ELSE found_urls)

C4_Witness ==
    /\ cmd = "scrape" /\ exit_code = 0
    /\ Len(recent_urls) = 2 /\ recent_urls[1] = recent_urls[2]
    /\ found_urls # <<>>
    /\ Len(UrlsIn(output)) = 2

UrlLineList(list) == [k \in DOMAIN list |-> <<UrlPiece(list[k])>>]
SeparatorLine == <<Piece("additional", 0, NoUrl)>>
BlankLine == <<>>
EndsWithBreak(content) == content # <<>> /\ content[Len(content)] = NL
OverwriteOk ==
    /\ \A k \in DOMAIN output : output[k].kind # "prior"
    /\ Lines(output) =
          <<<<Piece("source", 0, NoUrl)>>, <<Piece("total", Len(UrlsIn(output)), NoUrl)>>,
            <<Piece("generator", 0, NoUrl)>>, BlankLine>> \o UrlLineList(unique_urls)

\* C5 as stated: a saved append run on an existing file adds, after the prior lines, one separator
\* line and the N URL lines; a saved overwrite run leaves no prior line and its
\* header count is the number of URL lines.
C5_OneSeparatorLine ==
    (cmd = "scrape" /\ exit_code = 0) =>
        IF append
        THEN prior # <<>> =>
                Lines(output) = Lines(prior) \o <<SeparatorLine>> \o UrlLineList(unique_urls)
        ELSE OverwriteOk

\* C5 as amended: a saved append run keeps the prior content as the start of the
\* file and adds a line break (a blank line, unless the prior content ended inside
\* a line), one separator line and the N URL lines; overwrite as stated.
C5_AppendKeepsPrior ==
    (cmd = "scrape" /\ exit_code = 0) =>
        IF append
        THEN /\ Len(output) >= Len(prior)
             /\ SubSeq(output, 1, Len(prior)) = prior
             /\ Lines(output) =
                   Lines(prior)
                   \o (IF prior = <<>> \/ EndsWithBreak(prior) THEN <<BlankLine>> ELSE <<>>)
                   \o <<SeparatorLine>> \o UrlLineList(unique_urls)
        ELSE OverwriteOk

C5_Witness ==
    /\ cmd = "scrape" /\ exit_code = 0 /\ append
    /\ EndsWithBreak(prior) /\ Len(Lines(prior)) = 3
    /\ Len(unique_urls) = 2

\* the transform of the specification: lower-case, blanks to hyphens, delete what
\* is outside [a-z0-9-], collapse hyphens, trim hyphens
Blanks == {" ", "\t"}
StrippingSlug(name) ==
    LET lowered == [k \in DOMAIN name |-> Lower(name[k])]
        hyphened == [k \in DOMAIN name |-> IF lowered[k] \in Blanks THEN "-" ELSE lowered[k]]
        kept == SelectSeq(hyphened, LAMBDA c : c \in SlugChars)
    IN StripHyphens(CollapseHyphens(kept))

\* the maximal runs of [a-z0-9] of a lower-cased title, joined by single hyphens
RECURSIVE JoinedRuns(_, _)
JoinedRuns(name, out) ==
    IF name = <<>> THEN out
    ELSE LET c == Lower(Head(name)) IN
         IF c \in SlugChars \ {"-"} THEN JoinedRuns(Tail(name), Append(out, c))
         ELSE IF out = <<>> \/ \A k \in DOMAIN Tail(name) : Lower(Tail(name)[k]) \notin SlugChars \ {"-"}
              THEN JoinedRuns(Tail(name), out)
         ELSE IF out[Len(out)] = "-" THEN JoinedRuns(Tail(name), out)
         ELSE JoinedRuns(Tail(name), Append(out, "-"))

\* C6 as stated: the slug is the stripping transform of the title, and deriving
\* the slug of a slug changes nothing.
C6_SlugStripsOthers ==
    (cmd = "slug" /\ pc = "done") =>
        /\ episode_name = StrippingSlug(trackName)
        /\ episode_name2 = episode_name

\* C6 as amended: every character outside [a-z0-9-] becomes a hyphen, so the slug
\* is the runs of [a-z0-9] of the lower-cased title joined by single hyphens, and
\* deriving the slug of a slug changes nothing.
C6_SlugHyphenatesOthers ==
    (cmd = "slug" /\ pc = "done") =>
        /\ episode_name = JoinedRuns(trackName, <<>>)
        /\ episode_name2 = episode_name

C6_Witness ==
    /\ cmd = "slug" /\ pc = "done"
    /\ trackName = <<"B", "!", " ", "7">>
    /\ episode_name = <<"b", "-", "7">>

\* C7: validate_urls probes the first min(N, s) URLs, in list order, one probe
\* each whatever the outcomes, and returns a count between 0 and min(N, s).
C7_ProbesFirstSample ==
    cmd = "validate" =>
        LET n == Min(Len(urls), sample_size) IN
        /\ Len(probed) <= n
        /\ \A k \in DOMAIN probed : probed[k].url = urls[k]
        /\ valid_count >= 0 /\ valid_count <= Len(probed)
        /\ pc = "done" => Len(probed) = n

C7_Witness ==
    /\ cmd = "validate" /\ pc = "done"
    /\ Len(urls) = 3 /\ sample_size = 2
    /\ Len(probed) = 2 /\ probed[1].outcome = "raised" /\ probed[2].outcome = "200"
    /\ valid_count = 1

\* two runs of digits separated by one hyphen
TwoIntegers(range) ==
    \E k \in DOMAIN range :
        /\ range[k] = "-"
        /\ k > 1 /\ k < Len(range)
        /\ \A j \in DOMAIN range : j # k => IsDigit(range[j])

HasIdSegment(url) ==
    \E k \in 1..(Len(url) - 3) :
        url[k] = "/" /\ url[k + 1] = "i" /\ url[k + 2] = "d" /\ IsDigit(url[k + 3])

\* C8: a scrape run whose URL has no /id<digits> segment or whose range is not
\* two integers separated by a hyphen ends non-zero and leaves the file as it was.
C8_BadInputExitsNonZero ==
    (cmd = "scrape" /\ pc = "done" /\ (~HasIdSegment(podcast_url) \/ ~TwoIntegers(search_range))) =>
        /\ exit_code # 0
        /\ output = prior

\* C9: when process-urls ends, every URL of the file was processed once, in file
\* order, and no temporary directory is left; between URLs none exists.
C9_EveryUrlProcessed ==
    cmd = "process_urls" =>
        /\ (pc \in {"for_url", "done"} => temp_dirs = {})
        /\ (pc = "done" /\ file_present) => started = read_urls_from_file(urls_file)

\* C10: only a 403 response ends an enumeration early; after any other failed
\* call the enumeration goes on.
C10_OnlyA403Stops == stop = "rate_limited" => last = "status403"

\* the search call is the next step of the code
AboutToCall == pc = "for_term" /\ term <= NumTerms /\ requests_made < max_requests

\* C11: within one enumeration a delay has been taken between any search call
\* and the next one, whatever the outcome of the earlier call.
C11_DelayBetweenCalls == (AboutToCall /\ calls > 0) => delay # "none"

\* a result of the podcast that is an episode
IsEpisodeOfPodcast(r) == r.collectionId = IntOf(podcast_id) /\ r.kind = "podcast-episode"
UrlOfResult(r) == EpisodeUrl(r.trackName, podcast_id, r.trackId)
\* the result has an identifier and its URL is neither known nor found before
IsNewEpisode(r) ==
    /\ r.trackId # 0
    /\ ~InSeq(UrlOfResult(r), existing_urls)
    /\ ~InSeq(UrlOfResult(r), found_before)
Least(S) == CHOOSE k \in S : \A j \in S : k <= j
\* once an index has recorded a URL, no further variant is issued for it
NoVariantAfterRecord == (pc = "for_term" /\ episode_found) => ~AboutToCall

\* C12 as stated: of a successful response only the first episode of the podcast
\* counts: it is recorded iff its URL is new, no later result is recorded, and
\* an index that recorded a URL issues no further variant.
C12_OnlyFirstMatchConsidered ==
    /\ NoVariantAfterRecord
    /\ pc = "sleep" =>
          LET matching == {k \in DOMAIN last_results : IsEpisodeOfPodcast(last_results[k])} IN
          found_urls = found_before \o
              (IF matching # {} /\ IsNewEpisode(last_results[Least(matching)])
               THEN <<UrlOfResult(last_results[Least(matching)])>>
               ELSE <<>>)

\* C12 as amended: of a successful response the first episode of the podcast that
\* has an identifier and a new URL is recorded, episodes before it whose URL is
\* known being passed over; nothing else of the response is recorded, and an
\* index that recorded a URL issues no further variant.
C12_FirstNewMatchRecorded ==
    /\ NoVariantAfterRecord
    /\ pc = "sleep" =>
          LET fresh == {k \in DOMAIN last_results :
                           IsEpisodeOfPodcast(last_results[k]) /\ IsNewEpisode(last_results[k])} IN
          /\ found_urls = found_before \o
                (IF fresh # {} THEN <<UrlOfResult(last_results[Least(fresh)])>> ELSE <<>>)
          /\ episode_found = (fresh # {})

C12_Witness ==
    /\ pc = "sleep" /\ Len(last_results) = 2
    /\ IsEpisodeOfPodcast(last_results[1])
    /\ InSeq(UrlOfResult(last_results[1]), existing_urls)
    /\ IsEpisodeOfPodcast(last_results[2])
    /\ episode_found
    /\ found_urls = found_before \o <<UrlOfResult(last_results[2])>>

Terminal == stop \in {"completed", "budget", "rate_limited"}
IndexCount == IF end_episode >= start_episode THEN end_episode - start_episode + 1 ELSE 0
\* the search calls issued for the index being processed
CallsThisIndex == calls - 2 * (episode_num - start_episode)

\* at most two calls per index, the reason of each exit, and no call at all for
\* an empty range or a zero cap
WithinTwoPerIndex ==
    stop # "none" =>
        /\ calls <= 2 * IndexCount
        /\ (stop = "running" /\ pc = "for_episode") => CallsThisIndex <= 0
        /\ (stop = "running" /\ pc \in {"for_term", "sleep"}) =>
              (CallsThisIndex <= 2 /\ episode_num <= end_episode)
        /\ stop = "completed" => episode_num > end_episode
        /\ stop = "budget" => requests_made >= max_requests
        /\ stop = "rate_limited" => last \in {"status403", "http_error", "connection_error"}
        /\ (start_episode > end_episode \/ max_requests = 0) =>
              (calls = 0 /\ found_urls = <<>>)

\* the list only grows, and the step that returns hands over the list as it is
KeepsAccumulated ==
    /\ Len(found_urls') >= Len(found_urls) =>
          SubSeq(found_urls', 1, Len(found_urls)) = found_urls
    /\ (stop = "running" /\ stop' # "running") => found_urls' = found_urls
    /\ stop = "running" => Len(found_urls') >= Len(found_urls)

\* C13: every enumeration ends Completed, BudgetExhausted or RateLimited, with at
\* most two search calls per index (so at most 2*(end-start+1) in all), returning
\* the URLs accumulated so far; an empty range or a zero cap issues no call and
\* returns the empty list.
C13_EndsWithinTwoCallsPerIndex ==
    /\ []WithinTwoPerIndex
    /\ [][KeepsAccumulated]_vars
    /\ <>Terminal

C13_Witness ==
    /\ stop = "completed"
    /\ end_episode > start_episode
    /\ calls = 2 * IndexCount
    /\ found_urls # <<>>

====
